---- MODULE Spec2Model ----
(***************************************************************************)
(* Model of render_geojson.py: the QGIS server filter RenderGeojsonFilter. *)
(* One request at a time is handed to responseComplete; the model follows  *)
(* the handler through validation, resource resolution, layer styling,     *)
(* rendering and the writing of the response.                              *)
(*                                                                         *)
(* Strings are sequences of one-character strings, so that upper(),        *)
(* int(), split(','), replace() and os.path.join are computed and not      *)
(* assumed.  Fixed message texts are kept as single tokens.                *)
(***************************************************************************)
EXTENDS Integers, Sequences, FiniteSets, TLC

VARIABLES
    pc,            \* position of the handler
    served,        \* number of requests handed to responseComplete so far
    prefix_path,   \* self.prefix_path (None or a string)
    files,         \* paths existing on the local filesystem
    params,        \* request.parameterMap(): a function on the keys present
    response,      \* the request handler's response (header + body chunks)
    validated,     \* locals of handle_requests after validation
    resolveCalls,  \* one record per call of _resolve_url in this request
    layers,        \* the QgsVectorLayer objects built, in order
    openFiles,     \* QFile objects currently open
    tempfiles,     \* temporary files created by urlretrieve and still on disk
    engine,        \* state of the QgsMapRendererParallelJob
    image,         \* result of img.save: "none", "png" or "empty"
    exc,           \* the exception in flight, or NoExc
    log            \* QgsMessageLog entries of this request

vars == <<pc, served, prefix_path, files, params, response, validated,
          resolveCalls, layers, openFiles, tempfiles, engine, image, exc, log>>

\* ---------------------------------------------------------------- bounds

MaxRequests == 1

\* ---------------------------------------------------------------- strings

None == <<"<None>">>

Digits == <<"0", "1", "2", "3", "4", "5", "6", "7", "8", "9">>

LowerCase == <<"a", "b", "c", "d", "e", "f", "g", "h", "i", "j", "k", "l", "m",
               "n", "o", "p", "q", "r", "s", "t", "u", "v", "w", "x", "y", "z">>

UpperCase == <<"A", "B", "C", "D", "E", "F", "G", "H", "I", "J", "K", "L", "M",
               "N", "O", "P", "Q", "R", "S", "T", "U", "V", "W", "X", "Y", "Z">>

IsDigit(c) == \E i \in 1..Len(Digits) : Digits[i] = c

DigitValue(c) == (CHOOSE i \in 1..Len(Digits) : Digits[i] = c) - 1

\* str.upper() on one character
UpperChar(c) ==
    IF \E i \in 1..Len(LowerCase) : LowerCase[i] = c
    THEN UpperCase[CHOOSE i \in 1..Len(LowerCase) : LowerCase[i] = c]
    ELSE c

\* str.upper()
Upper(s) == [i \in 1..Len(s) |-> UpperChar(s[i])]

\* s[i:] of Python, 1-based here
From(s, i) == SubSeq(s, i, Len(s))

\* s.startswith(sub, i-1)
MatchAt(s, sub, i) ==
    /\ i + Len(sub) - 1 <= Len(s)
    /\ SubSeq(s, i, i + Len(sub) - 1) = sub

\* the Python test: sub in s
Contains(s, sub) == \E i \in 1..(Len(s) + 1) : MatchAt(s, sub, i)

\* s.replace(old, new): every occurrence, left to right
RECURSIVE Replace(_, _, _)
Replace(s, old, new) ==
    IF s = <<>> THEN <<>>
    ELSE IF MatchAt(s, old, 1)
         THEN new \o Replace(From(s, Len(old) + 1), old, new)
         ELSE <<Head(s)>> \o Replace(Tail(s), old, new)

\* s.split(sep) for a one-character separator
RECURSIVE Split(_, _)
Split(s, sep) ==
    IF \E i \in 1..Len(s) : s[i] = sep
    THEN LET i == CHOOSE k \in 1..Len(s) :
                      s[k] = sep /\ \A j \in 1..(k - 1) : s[j] # sep
         IN  <<SubSeq(s, 1, i - 1)>> \o Split(From(s, i + 1), sep)
    ELSE <<s>>

Unsigned(s) == IF s # <<>> /\ s[1] \in {"-", "+"} THEN Tail(s) ELSE s

\* int(s) succeeds: an optional sign followed by one or more digits
IsIntLiteral(s) ==
    /\ Unsigned(s) # <<>>
    /\ \A i \in 1..Len(Unsigned(s)) : IsDigit(Unsigned(s)[i])

RECURSIVE DecimalValue(_)
DecimalValue(s) ==
    IF s = <<>> THEN 0
    ELSE 10 * DecimalValue(SubSeq(s, 1, Len(s) - 1)) + DigitValue(s[Len(s)])

\* int(s) for an integer literal
IntValue(s) ==
    IF s[1] = "-" THEN 0 - DecimalValue(Unsigned(s)) ELSE DecimalValue(Unsigned(s))

\* float(s) succeeds: optional sign, digits with at most one point
IsFloatLiteral(s) ==
    LET u == Unsigned(s)
    IN  /\ \E i \in 1..Len(u) : IsDigit(u[i])
        /\ \A i \in 1..Len(u) : IsDigit(u[i]) \/ u[i] = "."
        /\ Cardinality({i \in 1..Len(u) : u[i] = "."}) <= 1

\* ---------------------------------------------------------------- exceptions

NoExc == [type |-> "none", text |-> <<>>]

\* ParameterError(msg)
ParameterError(msg) == [type |-> "ParameterError", text |-> msg]

\* the ValueError int() raises on a string that is no integer literal
IntValueError(s) ==
    [type |-> "ValueError",
     text |-> <<"invalid literal for int() with base 10: '">> \o s \o <<"'">>]

\* the OSError family urlretrieve raises (URLError, HTTPError, ...): its text
\* names the reason, not the url
UrlError == [type |-> "URLError", text |-> <<"<urlopen error>">>]

\* any other exception escaping a collaborator call
RuntimeError == [type |-> "RuntimeError", text |-> <<"collaborator failure">>]

MustBeSet(name) == <<"Parameter ", name, " must be set.">>

MustBeInteger(name) == <<"Parameter ", name, " must be integer.">>

BBoxForm ==
    <<"Parameter BBOX must be specified in the form ", "min_x,min_y,max_x,max_y", ".">>

\* (the back-quotes around the form and the url are left out of the tokens)
NotRetrieved(url) ==
    <<"The file ">> \o url
        \o <<" could not be found locally and not be retrieved as download.">>

\* ---------------------------------------------------------------- validation

Has(p, key) == key \in DOMAIN p

DefaultDpi == 96

\* the exception classes the WIDTH/HEIGHT/DPI handlers turn into ParameterError
IntCaught == {"KeyError", "TypeError"}

\* int(params[key]): the exception class raised ("none" when it returns),
\* parameterMap() holds strings only, so TypeError does not arise
IntLookup(p, key) ==
    IF ~Has(p, key) THEN [raised |-> "KeyError", value |-> 0, exc |-> NoExc]
    ELSE IF ~IsIntLiteral(p[key])
         THEN [raised |-> "ValueError", value |-> 0, exc |-> IntValueError(p[key])]
         ELSE [raised |-> "none", value |-> IntValue(p[key]), exc |-> NoExc]

\* try: x = int(params[key])  except (KeyError, TypeError): raise ParameterError
RequiredInt(p, key) ==
    LET r == IntLookup(p, key)
    IN  IF r.raised = "none" THEN [exc |-> NoExc, value |-> r.value]
        ELSE IF r.raised \in IntCaught
             THEN [exc |-> ParameterError(MustBeInteger(key)), value |-> 0]
             ELSE [exc |-> r.exc, value |-> 0]

\* try: dpi = int(params['DPI'])  except TypeError: raise ..  except KeyError: 96
OptionalDpi(p) ==
    LET r == IntLookup(p, "DPI")
    IN  IF r.raised = "none" THEN [exc |-> NoExc, value |-> r.value]
        ELSE IF r.raised = "TypeError"
             THEN [exc |-> ParameterError(MustBeInteger("DPI")), value |-> 0]
             ELSE IF r.raised = "KeyError"
                  THEN [exc |-> NoExc, value |-> DefaultDpi]
                  ELSE [exc |-> r.exc, value |-> 0]

\* minx, miny, maxx, maxy = params.get('BBOX').split(','); four float() calls;
\* AttributeError (None.split) and ValueError are both caught
ParseBBox(p) ==
    IF ~Has(p, "BBOX") THEN [exc |-> ParameterError(BBoxForm), value |-> <<>>]
    ELSE LET parts == Split(p["BBOX"], ",")
         IN  IF Len(parts) # 4 \/ \E i \in 1..Len(parts) : ~IsFloatLiteral(parts[i])
             THEN [exc |-> ParameterError(BBoxForm), value |-> <<>>]
             ELSE [exc |-> NoExc, value |-> parts]

NotValidated ==
    [geojson |-> None, style |-> None, width |-> 0, height |-> 0, dpi |-> 0,
     bbox |-> <<>>]

\* lines 75-107 of handle_requests: the first statement that raises decides
Validate(p) ==
    LET w == RequiredInt(p, "WIDTH")
        h == RequiredInt(p, "HEIGHT")
        d == OptionalDpi(p)
        b == ParseBBox(p)
        Fail(e) == [exc |-> e, vals |-> NotValidated]
    IN  IF ~Has(p, "GEOJSON") THEN Fail(ParameterError(MustBeSet("GEOJSON")))
        ELSE IF ~Has(p, "STYLE") THEN Fail(ParameterError(MustBeSet("STYLE")))
        ELSE IF w.exc # NoExc THEN Fail(w.exc)
        ELSE IF h.exc # NoExc THEN Fail(h.exc)
        ELSE IF d.exc # NoExc THEN Fail(d.exc)
        ELSE IF b.exc # NoExc THEN Fail(b.exc)
        ELSE [exc |-> NoExc,
              vals |-> [geojson |-> p["GEOJSON"], style |-> p["STYLE"],
                        width |-> w.value, height |-> h.value, dpi |-> d.value,
                        bbox |-> b.value]]

\* ---------------------------------------------------------------- resolver

\* os.path.join(a, b): an absolute b discards a
PathJoin(a, b) ==
    IF b # <<>> /\ b[1] = "/" THEN b
    ELSE IF a = <<>> \/ a[Len(a)] = "/" THEN a \o b
         ELSE a \o <<"/">> \o b

\* the filesystem reads runs of "/" as one separator
RECURSIVE Normalize(_)
Normalize(path) ==
    IF Len(path) < 2 THEN path
    ELSE IF path[1] = "/" /\ path[2] = "/" THEN Normalize(Tail(path))
         ELSE <<Head(path)>> \o Normalize(Tail(path))

\* os.path.exists(path)
Exists(path, fs) == Normalize(path) \in fs

\* truth value of self.prefix_path: None and '' are both false
PrefixSet(prefix) == prefix # None /\ prefix # <<>>

\* urllib splits "scheme:rest" off the url; without a scheme urlopen raises
\* ValueError (unknown url type)
HasScheme(url) ==
    \E i \in 2..Len(url) :
        /\ url[i] = ":"
        /\ \A j \in 1..(i - 1) : url[j] \notin {"/", ":"}

\* what urllib.request.urlretrieve(url) can do
FetchOutcomes(url) ==
    IF HasScheme(url) THEN {"downloaded", "URLError"} ELSE {"ValueError"}

\* the name of the temporary file a download creates
NewTemp(temps) == <<"/", "t", "/">> \o [i \in 1..(Cardinality(temps) + 1) |-> "x"]

\* local_path of lines 53-55
LocalPath(prefix, url) ==
    IF PrefixSet(prefix) THEN PathJoin(prefix, url) ELSE None

\* the condition of line 57
NeedsFetch(prefix, url, fs) ==
    LocalPath(prefix, url) = None \/ ~Exists(LocalPath(prefix, url), fs)

\* the except clause of line 60
FetchCaught == {"ValueError"}

\* _resolve_url(url) with the download ending as `outcome`
ResolveUrl(prefix, url, fs, temps, outcome) ==
    LET local == LocalPath(prefix, url)
        call  == [url |-> url, local |-> local, fetches |-> 0, path |-> None,
                  raised |-> "none"]
    IN  IF ~NeedsFetch(prefix, url, fs)
        THEN [exc |-> NoExc, temp |-> {},
              call |-> [call EXCEPT !.path = local]]
        ELSE IF outcome = "downloaded"
        THEN [exc |-> NoExc, temp |-> {NewTemp(temps)},
              call |-> [call EXCEPT !.fetches = 1, !.path = NewTemp(temps)]]
        ELSE IF outcome \in FetchCaught
        THEN [exc |-> ParameterError(NotRetrieved(url)), temp |-> {},
              call |-> [call EXCEPT !.fetches = 1, !.raised = "ParameterError"]]
        ELSE [exc |-> UrlError, temp |-> {},
              call |-> [call EXCEPT !.fetches = 1, !.raised = outcome]]

TypeToken == <<"$", "t", "y", "p", "e">>

Polygons == <<"p", "o", "l", "y", "g", "o", "n", "s">>

Lines == <<"l", "i", "n", "e", "s">>

Points == <<"p", "o", "i", "n", "t", "s">>

\* the test of line 112
HasTypeToken(style) == Contains(style, TypeToken)

\* a plan that resolves a style without the token once per layer
ResolvePlanPerLayer(geojson, style) ==
    IF HasTypeToken(style)
    THEN <<geojson, Replace(style, TypeToken, Polygons),
           Replace(style, TypeToken, Lines), Replace(style, TypeToken, Points)>>
    ELSE <<geojson, style, style, style>>

\* the urls handle_requests passes to the resolver, in call order (110-117)
ResolvePlan(geojson, style) ==
    IF HasTypeToken(style)
    THEN <<geojson, Replace(style, TypeToken, Polygons),
           Replace(style, TypeToken, Lines), Replace(style, TypeToken, Points)>>
    ELSE <<geojson, style>>

\* polygon_style, line_style, point_style from the resolver's results (113-117)
StyleOf(style, paths) ==
    IF HasTypeToken(style) THEN <<paths[2], paths[3], paths[4]>>
    ELSE <<paths[2], paths[2], paths[2]>>

\* ---------------------------------------------------------------- inputs

Service == <<"R", "E", "N", "D", "E", "R", "G", "E", "O", "J", "S", "O", "N">>

ServiceValues ==
    { Service,
      <<"R", "e", "n", "d", "e", "r", "G", "e", "o", "J", "s", "o", "n">>,
      <<"W", "M", "S">> }

GeojsonValues == { <<"a">>, <<"/", "a">>, <<"h", ":", "a">> }

StyleValues == { <<"s">>, <<"s", "$", "t", "y", "p", "e">>, <<"h", ":", "s">> }

WidthValues == { <<"1", "0">>, <<"a", "b", "c">> }

HeightValues == { <<"2", "0">>, <<"x">> }

DpiValues == { <<"1", "0">>, <<"x">> }

BBoxValues == { <<"0", ",", "0", ",", "9", ",", "9">>, <<"1", ",", "2", ",", "3">> }

PrefixValues == { None, <<>>, <<"/", "d">> }

LocalFiles ==
    { <<"/", "d", "/", "a">>, <<"/", "d", "/", "s">>,
      <<"/", "d", "/", "s">> \o Polygons, <<"/", "d", "/", "s">> \o Lines,
      <<"/", "d", "/", "s">> \o Points }

FilesValues == { {}, LocalFiles, { <<"/", "a">> } }

Absent == <<"<absent>">>

Opt(values) == values \cup {Absent}

\* the parameter map holding the keys that were given
ParameterMap(service, geojson, style, width, height, dpi, bbox) ==
    LET given == [SERVICE |-> service, GEOJSON |-> geojson, STYLE |-> style,
                  WIDTH |-> width, HEIGHT |-> height, DPI |-> dpi, BBOX |-> bbox]
    IN  [k \in {n \in DOMAIN given : given[n] # Absent} |-> given[k]]

\* ---------------------------------------------------------------- response

NoResponse == [ctype |-> "", body |-> <<>>]

\* what an earlier filter or service may have left in the response
PriorResponses ==
    { NoResponse, [ctype |-> "text/xml", body |-> <<[kind |-> "prior", text |-> <<>>]>>] }

\* request.clear()
Clear(r) == NoResponse

\* request.setResponseHeader('Content-type', value)
SetContentType(r, value) == [r EXCEPT !.ctype = value]

\* request.appendBody(chunk)
AppendBody(r, chunk) == [r EXCEPT !.body = Append(@, chunk)]

\* traceback.format_exc(): the exception's type and text, not the raise sites
FormatExc(e) == <<"Traceback (most recent call last):", e.type, ": ">> \o e.text

\* ---------------------------------------------------------------- state machine

Init ==
    /\ pc = "idle"
    /\ served = 0
    /\ prefix_path \in PrefixValues
    /\ files \in FilesValues
    /\ params = << >>
    /\ response = NoResponse
    /\ validated = NotValidated
    /\ resolveCalls = <<>>
    /\ layers = <<>>
    /\ openFiles = {}
    /\ tempfiles = {}
    /\ engine = "none"
    /\ image = "none"
    /\ exc = NoExc
    /\ log = <<>>

\* the server hands a request to the filter chain
Receive ==
    /\ pc = "idle"
    /\ served < MaxRequests
    /\ \E service \in Opt(ServiceValues), geojson \in Opt(GeojsonValues),
          style \in Opt(StyleValues), width \in Opt(WidthValues),
          height \in Opt(HeightValues), dpi \in Opt(DpiValues),
          bbox \in Opt(BBoxValues) :
            params' = ParameterMap(service, geojson, style, width, height, dpi, bbox)
    /\ response' \in PriorResponses
    /\ served' = served + 1
    /\ pc' = "dispatch"
    /\ UNCHANGED <<prefix_path, files, validated, resolveCalls, layers, openFiles,
                   tempfiles, engine, image, exc, log>>

\* a comparison that forgets upper()
ClaimedCaseSensitive(p) == (IF Has(p, "SERVICE") THEN p["SERVICE"] ELSE <<>>) = Service

\* request.parameterMap().get('SERVICE', '').upper() == 'RENDERGEOJSON'
Claimed(p) == Upper(IF Has(p, "SERVICE") THEN p["SERVICE"] ELSE <<>>) = Service

\* responseComplete, lines 153-157: not our service
PassThrough ==
    /\ pc = "dispatch"
    /\ ~Claimed(params)
    /\ pc' = "passed"
    /\ UNCHANGED <<served, prefix_path, files, params, response, validated,
                   resolveCalls, layers, openFiles, tempfiles, engine, image, exc, log>>

\* responseComplete, lines 156-161: take over, clear, enter handle_requests
Claim ==
    /\ pc = "dispatch"
    /\ Claimed(params)
    /\ response' = Clear(response)
    /\ pc' = "validate"
    /\ UNCHANGED <<served, prefix_path, files, params, validated, resolveCalls,
                   layers, openFiles, tempfiles, engine, image, exc, log>>

\* handle_requests, lines 75-107
ValidateRequest ==
    /\ pc = "validate"
    /\ LET v == Validate(params)
       IN  /\ validated' = v.vals
           /\ exc' = v.exc
           /\ pc' = IF v.exc = NoExc THEN "resolve" ELSE "except"
    /\ UNCHANGED <<served, prefix_path, files, params, response, resolveCalls,
                   layers, openFiles, tempfiles, engine, image, log>>

\* handle_requests, lines 109-117: the next call of the resolver
Resolve ==
    /\ pc = "resolve"
    /\ LET plan == ResolvePlan(validated.geojson, validated.style)
           url  == plan[Len(resolveCalls) + 1]
       IN  \E outcome \in IF NeedsFetch(prefix_path, url, files \cup tempfiles)
                          THEN FetchOutcomes(url) ELSE {"unused"} :
             LET r == ResolveUrl(prefix_path, url, files \cup tempfiles,
                                 tempfiles, outcome)
             IN  /\ resolveCalls' = Append(resolveCalls, r.call)
                 /\ tempfiles' = tempfiles \cup r.temp
                 /\ exc' = r.exc
                 /\ pc' = IF r.exc # NoExc THEN "except"
                          ELSE IF Len(resolveCalls) + 1 = Len(plan) THEN "layer"
                          ELSE "resolve"
    /\ UNCHANGED <<served, prefix_path, files, params, response, validated,
                   layers, openFiles, engine, image, log>>

GeometryTypes == <<"Polygon", "Line", "Point">>

LayerNames == <<"polygons", "lines", "points">>

\* the paths the resolver returned, in call order
ResolvedPaths == [i \in 1..Len(resolveCalls) |-> resolveCalls[i].path]

\* QgsVectorLayer(geojson_file_name + '|geometrytype=..', name, 'ogr')
NewLayer(i) ==
    [name |-> LayerNames[i],
     source |-> ResolvedPaths[1] \o <<"|geometrytype=", GeometryTypes[i]>>,
     style |-> None, styled |-> FALSE]

\* lines 120/122/124 and _load_style lines 66-67: build the next layer and
\* open its style file
OpenStyle ==
    /\ pc = "layer"
    /\ LET i == Len(layers) + 1
       IN  /\ layers' = Append(layers, NewLayer(i))
           /\ openFiles' = openFiles \cup {StyleOf(validated.style, ResolvedPaths)[i]}
    /\ pc' = "load_style"
    /\ UNCHANGED <<served, prefix_path, files, params, response, validated,
                   resolveCalls, tempfiles, engine, image, exc, log>>

\* _load_style lines 68-72: setContent and readStyle report failure by their
\* return value, which is dropped; on return the QFile goes out of scope
ReadStyle ==
    /\ pc = "load_style"
    /\ LET i == Len(layers)
           path == StyleOf(validated.style, ResolvedPaths)[i]
       IN  /\ \E applied \in BOOLEAN :
                 layers' = [layers EXCEPT ![i].style = path, ![i].styled = applied]
           /\ openFiles' = openFiles \ {path}
           /\ pc' = IF i = Len(LayerNames) THEN "render" ELSE "layer"
    /\ UNCHANGED <<served, prefix_path, files, params, response, validated,
                   resolveCalls, tempfiles, engine, image, exc, log>>

\* lines 127-139: settings, renderer.start(), event_loop.exec_()
StartRender ==
    /\ pc = "render"
    /\ engine' = "running"
    /\ pc' = "event_loop"
    /\ UNCHANGED <<served, prefix_path, files, params, response, validated,
                   resolveCalls, layers, openFiles, tempfiles, image, exc, log>>

\* renderer.finished -> event_loop.quit
RenderFinished ==
    /\ pc = "event_loop"
    /\ engine' = "finished"
    /\ pc' = "encode"
    /\ UNCHANGED <<served, prefix_path, files, params, response, validated,
                   resolveCalls, layers, openFiles, tempfiles, image, exc, log>>

\* lines 141-147: img.save(buf, 'PNG') returns False on failure (a null
\* image, for one) and leaves image_data empty; the result is dropped
Encode ==
    /\ pc = "encode"
    /\ \E saved \in BOOLEAN : image' = IF saved THEN "png" ELSE "empty"
    /\ pc' = "set_header"
    /\ UNCHANGED <<served, prefix_path, files, params, response, validated,
                   resolveCalls, layers, openFiles, tempfiles, engine, exc, log>>

\* line 149
WriteHeader ==
    /\ pc = "set_header"
    /\ response' = SetContentType(response, "image/png")
    /\ pc' = "append_body"
    /\ UNCHANGED <<served, prefix_path, files, params, validated, resolveCalls,
                   layers, openFiles, tempfiles, engine, image, exc, log>>

\* line 150
WriteBody ==
    /\ pc = "append_body"
    /\ response' = AppendBody(response, [kind |-> "image", text |-> <<image>>])
    /\ pc' = "responded"
    /\ UNCHANGED <<served, prefix_path, files, params, validated, resolveCalls,
                   layers, openFiles, tempfiles, engine, image, exc, log>>

\* a collaborator call raises instead of returning
RaisingSteps == {"load_style", "event_loop", "append_body"}

CollaboratorRaises ==
    /\ pc \in RaisingSteps
    /\ exc' = RuntimeError
    /\ pc' = "except"
    /\ UNCHANGED <<served, prefix_path, files, params, response, validated,
                   resolveCalls, layers, openFiles, tempfiles, engine, image, log>>

\* the body responseComplete writes for exception e, lines 164-172
ErrorResponse(r, e) ==
    IF e.type = "ParameterError"
    THEN AppendBody(SetContentType(r, "text/plain"),
                    [kind |-> "message", text |-> e.text])
    ELSE AppendBody(AppendBody(SetContentType(r, "text/plain"),
                               [kind |-> "marker", text |-> <<"Unhandled error">>]),
                    [kind |-> "trace", text |-> FormatExc(e)])

\* responseComplete, lines 162-172; leaving the except clause drops the
\* traceback and with it the frames that still held an open QFile
HandleException ==
    /\ pc = "except"
    /\ response' = ErrorResponse(response, exc)
    /\ log' = IF exc.type = "ParameterError" THEN log \o <<exc.type>>
              ELSE log \o <<exc.type, "trace">>
    /\ openFiles' = {}
    /\ exc' = NoExc
    /\ pc' = "responded"
    /\ UNCHANGED <<served, prefix_path, files, params, validated, resolveCalls,
                   layers, tempfiles, engine, image>>

\* responseComplete has returned: the server sends the response and drops
\* the request; the filter object, the filesystem and the downloads stay
Finish ==
    /\ pc \in {"passed", "responded"}
    /\ pc' = "idle"
    /\ params' = << >>
    /\ response' = NoResponse
    /\ validated' = NotValidated
    /\ resolveCalls' = <<>>
    /\ layers' = <<>>
    /\ engine' = "none"
    /\ image' = "none"
    /\ log' = <<>>
    /\ UNCHANGED <<served, prefix_path, files, openFiles, tempfiles, exc>>

Next ==
    \/ Receive
    \/ PassThrough
    \/ Claim
    \/ ValidateRequest
    \/ Resolve
    \/ OpenStyle
    \/ ReadStyle
    \/ StartRender
    \/ RenderFinished
    \/ Encode
    \/ WriteHeader
    \/ WriteBody
    \/ CollaboratorRaises
    \/ HandleException
    \/ Finish

Spec == Init /\ [][Next]_vars

\* ================================================================ claims

\* what the specification calls a failing parameter
Missing(name) == ~Has(params, name)

NotInteger(name) == Has(params, name) /\ ~IsIntLiteral(params[name])

MalformedBBox ==
    /\ Has(params, "BBOX")
    /\ LET parts == Split(params["BBOX"], ",")
       IN  Len(parts) # 4 \/ \E i \in 1..Len(parts) : ~IsFloatLiteral(parts[i])

ValidationOrder == <<"GEOJSON", "STYLE", "WIDTH", "HEIGHT", "DPI", "BBOX">>

Fails(name) ==
    CASE name \in {"GEOJSON", "STYLE"} -> Missing(name)
      [] name \in {"WIDTH", "HEIGHT"} -> Missing(name) \/ NotInteger(name)
      [] name = "DPI" -> NotInteger(name)
      [] name = "BBOX" -> Missing(name) \/ MalformedBBox

MessageOf(name) ==
    CASE name \in {"GEOJSON", "STYLE"} -> MustBeSet(name)
      [] name \in {"WIDTH", "HEIGHT", "DPI"} -> MustBeInteger(name)
      [] name = "BBOX" -> BBoxForm

\* the plain-text response that carries exactly the message msg
PlainText(msg) ==
    [ctype |-> "text/plain", body |-> <<[kind |-> "message", text |-> msg]>>]

\* C1: a claimed request with GEOJSON and STYLE present whose WIDTH (or, with
\* WIDTH an integer, whose HEIGHT) is absent or not integer-parseable is
\* answered with the plain-text message "Parameter WIDTH must be integer."
\* (resp. HEIGHT), not with the unexpected-error response.
C1_WidthHeightMustBeInteger ==
    (pc = "responded" /\ ~Missing("GEOJSON") /\ ~Missing("STYLE")) =>
        /\ Fails("WIDTH") => response = PlainText(MustBeInteger("WIDTH"))
        /\ (~Fails("WIDTH") /\ Fails("HEIGHT")) =>
               response = PlainText(MustBeInteger("HEIGHT"))

\* C1, the part the code keeps: an absent WIDTH is answered with the message
C1_AbsentWidthWitness ==
    /\ pc = "responded"
    /\ ~Missing("GEOJSON") /\ ~Missing("STYLE") /\ Missing("WIDTH")
    /\ response = PlainText(MustBeInteger("WIDTH"))

EarlierThanDpiValid ==
    /\ ~Missing("GEOJSON") /\ ~Missing("STYLE")
    /\ ~Fails("WIDTH") /\ ~Fails("HEIGHT")

\* the handler has just left validation
AfterValidation == pc \in {"resolve", "except"} /\ resolveCalls = <<>>

\* C2: with all earlier parameters valid, an absent DPI gives the effective
\* DPI 96 and no error, an integer DPI gives that integer, and a DPI that is
\* not integer-parseable is answered with "Parameter DPI must be integer.".
C2_DpiDefaultOrInteger ==
    EarlierThanDpiValid =>
        /\ (AfterValidation /\ Missing("DPI") /\ ~Fails("BBOX")) =>
               pc = "resolve" /\ validated.dpi = 96
        /\ (AfterValidation /\ Missing("DPI") /\ Fails("BBOX")) =>
               exc = ParameterError(BBoxForm)
        /\ (AfterValidation /\ ~Missing("DPI") /\ ~Fails("DPI") /\ ~Fails("BBOX")) =>
               pc = "resolve" /\ validated.dpi = IntValue(params["DPI"])
        /\ (pc = "responded" /\ Fails("DPI")) =>
               response = PlainText(MustBeInteger("DPI"))

\* C2, the part the code keeps: DPI absent renders at 96
C2_DefaultDpiWitness ==
    /\ pc = "render"
    /\ Missing("DPI")
    /\ validated.dpi = 96

FirstFailing ==
    ValidationOrder[CHOOSE i \in 1..Len(ValidationOrder) :
                        /\ Fails(ValidationOrder[i])
                        /\ \A j \in 1..(i - 1) : ~Fails(ValidationOrder[j])]

SomeFails == \E i \in 1..Len(ValidationOrder) : Fails(ValidationOrder[i])

\* C3: parameters are validated in the order GEOJSON, STYLE, WIDTH, HEIGHT,
\* DPI, BBOX; the response to a request with failing parameters carries the
\* message of the earliest failing one and nothing else.
C3_FirstFailingParameterReported ==
    (pc = "responded" /\ SomeFails) => response = PlainText(MessageOf(FirstFailing))

RequiredParameters == {"GEOJSON", "STYLE", "WIDTH", "HEIGHT", "BBOX"}

SomeMissing == \E name \in RequiredParameters : Missing(name)

NothingStarted == resolveCalls = <<>> /\ layers = <<>> /\ engine = "none"

\* C4: a claimed request that misses any of GEOJSON, STYLE, WIDTH, HEIGHT or
\* BBOX is answered as text/plain with exactly the validation message of a
\* failing parameter, and no resolution, layer construction or rendering
\* happens in it.
C4_MissingParameterAnswered ==
    SomeMissing =>
        /\ pc \notin {"idle", "dispatch", "passed"} => NothingStarted
        /\ pc = "responded" =>
               \E i \in 1..Len(ValidationOrder) :
                   /\ Fails(ValidationOrder[i])
                   /\ response = PlainText(MessageOf(ValidationOrder[i]))

\* C4, the part the code keeps: a missing BBOX behind valid parameters
C4_MissingBBoxWitness ==
    /\ pc = "responded"
    /\ Missing("BBOX") /\ FirstFailing = "BBOX"
    /\ response = PlainText(BBoxForm)
    /\ NothingStarted

\* equality of strings up to the case of their letters
SameLetter(a, b) ==
    \/ a = b
    \/ \E k \in 1..Len(LowerCase) : {a, b} = {LowerCase[k], UpperCase[k]}

SameIgnoringCase(a, b) ==
    /\ Len(a) = Len(b)
    /\ \A i \in 1..Len(a) : SameLetter(a[i], b[i])

ForThisService ==
    Has(params, "SERVICE") /\ SameIgnoringCase(params["SERVICE"], Service)

\* C5: a request whose SERVICE is absent or differs from RENDERGEOJSON
\* (letter case ignored) is left alone by responseComplete: the response is
\* not cleared, no header is set, no body appended, no stage started,
\* whatever the other parameters are; a SERVICE equal to RENDERGEOJSON in
\* any letter case is claimed (response cleared, handle_requests entered).
C5_OnlyOwnServiceClaimed ==
    [][ /\ pc = "dispatch" =>
             IF ForThisService
             THEN pc' = "validate" /\ response' = NoResponse
             ELSE /\ pc' = "passed"
                  /\ UNCHANGED <<response, params, validated, resolveCalls, layers,
                                 openFiles, tempfiles, engine, image, exc, log>>
        /\ pc = "passed" => pc' = "idle" ]_vars

\* C5: a request for another service, with a response already present and
\* the rendering parameters given, has been passed through untouched
C5_PassedThroughWitness ==
    /\ pc = "passed"
    /\ Has(params, "SERVICE") /\ Has(params, "GEOJSON") /\ Has(params, "STYLE")
    /\ response \in PriorResponses \ {NoResponse}
    /\ NothingStarted /\ log = <<>>

\* the urls the resolver was called with, in call order
UrlsResolved == [i \in 1..Len(resolveCalls) |-> resolveCalls[i].url]

\* the calls the claim expects for the validated GEOJSON and STYLE
ExpectedUrls ==
    LET style == validated.style
    IN  IF \E i \in 1..Len(style) : MatchAt(style, TypeToken, i)
        THEN <<validated.geojson,
               Replace(style, TypeToken, <<"p", "o", "l", "y", "g", "o", "n", "s">>),
               Replace(style, TypeToken, <<"l", "i", "n", "e", "s">>),
               Replace(style, TypeToken, <<"p", "o", "i", "n", "t", "s">>)>>
        ELSE <<validated.geojson, style>>

IsPrefix(a, b) == Len(a) <= Len(b) /\ SubSeq(b, 1, Len(a)) = a

ValidatedRequest == validated # NotValidated

\* the call whose result layer i must be styled with
StyleCallOf(i) == IF Len(ExpectedUrls) = 4 THEN i + 1 ELSE 2

\* C6 as stated: every validated request makes exactly the expected resolver
\* calls: the dataset once, then three style calls (polygons, lines, points
\* substituted for the token) or one style call.
C6_ExactResolverCalls ==
    (pc = "responded" /\ ValidatedRequest) => UrlsResolved = ExpectedUrls

\* C6 amended: in a validated request the resolver calls made are an initial
\* part of the expected sequence (dataset first, then the three substituted
\* styles or the one style), they stop short of it only at a call that
\* failed, and a request that reaches layer construction has made all of
\* them; each layer is styled with the result of its own call (token case)
\* or of the single style call.
C6_ResolverCallsFollowPlan ==
    ValidatedRequest =>
        /\ IsPrefix(UrlsResolved, ExpectedUrls)
        /\ \A i \in 1..(Len(resolveCalls) - 1) : resolveCalls[i].raised = "none"
        /\ (pc = "responded" /\ UrlsResolved # ExpectedUrls) =>
               /\ resolveCalls # <<>>
               /\ resolveCalls[Len(resolveCalls)].raised # "none"
        /\ pc \in {"layer", "load_style", "render", "event_loop", "encode",
                   "set_header", "append_body"} => UrlsResolved = ExpectedUrls
        /\ \A i \in 1..Len(layers) :
               layers[i].style # None =>
                   layers[i].style = resolveCalls[StyleCallOf(i)].path

\* C6: a request with the token in STYLE has resolved four urls and styled
\* three layers
C6_ThreeStylesWitness ==
    /\ pc = "responded"
    /\ Len(resolveCalls) = 4
    /\ Len(layers) = 3
    /\ \A i \in 1..3 : layers[i].style = resolveCalls[i + 1].path
    /\ response.ctype = "image/png"

\* the claim's prefix/ref
Prefixed(url) == prefix_path \o <<"/">> \o url

FoundLocally(url, fs) ==
    /\ prefix_path # None /\ prefix_path # <<>>
    /\ Normalize(Prefixed(url)) \in fs

\* what the claim asks of one resolver call (downloads land outside the
\* prefix directory, so files alone decides the local match)
C7_CallOk(c) ==
    IF FoundLocally(c.url, files)
    THEN c.fetches = 0 /\ c.path # None /\ Normalize(c.path) = Normalize(Prefixed(c.url))
    ELSE c.fetches = 1

\* C7: when a prefix directory is configured and prefix/ref exists, the
\* resolver returns that prefixed path without a fetch; a fetch of ref is
\* attempted exactly when the prefix is unset or prefix/ref does not exist,
\* and at most once per call.
C7_LocalFirstThenOneFetch ==
    \A i \in 1..Len(resolveCalls) : C7_CallOk(resolveCalls[i])

\* C7, the part the code keeps: a relative reference found under the prefix
C7_LocalHitWitness ==
    /\ resolveCalls # <<>>
    /\ resolveCalls[1].url = <<"a">>
    /\ resolveCalls[1].fetches = 0
    /\ resolveCalls[1].path = <<"/", "d", "/", "a">>

LastCall == resolveCalls[Len(resolveCalls)]

\* C8: when a reference has no local match and its fetch fails for whatever
\* reason, the client gets the message "The file {ref} could not be found
\* locally and not be retrieved as download." with the original reference.
C8_FetchFailureNamesReference ==
    (pc = "responded" /\ resolveCalls # <<>> /\ LastCall.fetches = 1
        /\ LastCall.path = None) =>
        response = PlainText(NotRetrieved(LastCall.url))

\* C8, the part the code keeps: a reference without a scheme
C8_MalformedReferenceWitness ==
    /\ pc = "responded"
    /\ resolveCalls # <<>> /\ LastCall.raised = "ParameterError"
    /\ response = PlainText(NotRetrieved(LastCall.url))

HasImageChunk == \E i \in 1..Len(response.body) : response.body[i].kind = "image"

AllStagesSucceeded ==
    /\ ValidatedRequest
    /\ UrlsResolved = ExpectedUrls
    /\ \A i \in 1..Len(resolveCalls) : resolveCalls[i].raised = "none"
    /\ Len(layers) = 3 /\ \A i \in 1..3 : layers[i].styled
    /\ engine = "finished"
    /\ image = "png"
    /\ log = <<>>

\* C9: the image/png header and the PNG bytes are written only after
\* validation, resolution, styling, rendering and PNG encoding have all
\* succeeded; a request in which a stage failed is answered with a
\* text/plain error response only, without image header or image bytes.
C9_ImageOnlyAfterSuccess ==
    /\ (response.ctype = "image/png" \/ HasImageChunk) =>
           pc \in {"append_body", "responded", "except"}
    /\ pc = "responded" =>
           IF AllStagesSucceeded
           THEN response = [ctype |-> "image/png",
                            body |-> <<[kind |-> "image", text |-> <<"png">>]>>]
           ELSE response.ctype = "text/plain" /\ ~HasImageChunk

\* C9, the part the code keeps: an exception after the image header was set
\* still ends in a text/plain response without image bytes
C9_LateFailureWitness ==
    /\ pc = "responded"
    /\ engine = "finished" /\ image = "png"
    /\ response.ctype = "text/plain" /\ ~HasImageChunk

\* C10: when a request has reached its responded state no style file is
\* still open and no downloaded temporary file is still held.
C10_ResourcesReleased ==
    pc = "responded" => openFiles = {} /\ tempfiles = {}

\* C10, the part the code keeps: style files are closed on the error path
C10_StyleFileClosedWitness ==
    /\ pc = "responded"
    /\ Len(layers) = 2 /\ layers[2].style = None
    /\ openFiles = {}

====
